---- MODULE Spec2Model ----
(***************************************************************************)
(* A model of libzulip: the server-settings cache (organizations.rs) and   *)
(* the endpoint operations on messages (messages/*.rs), with the replies   *)
(* of the Zulip server as inputs.                                          *)
(***************************************************************************)
EXTENDS Integers, Sequences, FiniteSets, TLC

VARIABLES
    now,               \* the monotonic clock read by Instant::now(), in seconds
    ticks,             \* how often the clock has advanced
    conf_interval,     \* ClientConfig::server_settings_cache_interval is Some
    refresh_interval,  \* the Duration in the shared Arc<RwLock<Duration>> cell
    cache,             \* the ServerSettingsCache of the client
    srv,               \* the revision of its settings the server reports now
    call,              \* the current or last call on the cache
    last_good,         \* the value of the latest successful server_settings fetch
    last,              \* the last endpoint operation: request, reply and result
    serverMsgs,        \* the ids of the messages the server holds
    conf,              \* Client::conf, the ClientConfig the client was made with
    lock,              \* the tokio RwLock around the refresh interval
    writer             \* the task of the owner that writes the interval

cacheVars == <<now, ticks, conf_interval, refresh_interval, cache, srv, call,
               last_good>>
opVars == <<last, serverMsgs, conf>>
lockVars == <<lock, writer>>
vars == <<now, ticks, conf_interval, refresh_interval, cache, srv, call,
          last_good, last, serverMsgs, conf, lock, writer>>

-----------------------------------------------------------------------------
(* Bounds of the model *)

MaxTicks == 2
MaxCalls == 3
MaxDuration == 2
MaxLevel == 2
MaxOps == 2

-----------------------------------------------------------------------------
(* Option and Result values *)

None == [some |-> FALSE]
Some(x) == [some |-> TRUE, v |-> x]

Ok(v) == [ok |-> TRUE, val |-> v]
Err(e) == [ok |-> FALSE, err |-> e]

-----------------------------------------------------------------------------
(* The configuration of the client, config.rs *)

\* config.rs: the email, the API keys a caller gives, and struct ApiKey with
\* its new, get and set
Email == "iago@zulip.com"
ApiKeys == {"api-key", "rotated-key"}
ApiKey(key) == [key |-> key]
ApiKey_get(api_key) == api_key.key
ApiKey_set(api_key, key) == [api_key EXCEPT !.key = key]

\* build_info::PKG_NAME and build_info::PKG_VERSION
PKG_NAME == "libzulip"
PKG_VERSION == "0.1.0"

\* UserAgent::new: "{them}, {us} (Rust)"
UserAgent(client_name, version) ==
    LET us == PKG_NAME \o "/" \o PKG_VERSION
        them == client_name \o "/" \o version
    IN [s |-> them \o ", " \o us \o " (Rust)"]

\* A ClientConfig as the examples build it, with the given API key
ClientConfig(key) ==
    [user_agent |-> UserAgent("client_name", "version"), email |-> Email,
     api_key |-> ApiKey(key)]

-----------------------------------------------------------------------------
(* The server-settings cache, organizations.rs *)

DEFAULT_CACHE_REFRESH_INTERVAL == 60 * 5

\* The fields of ServerSettings that the model tells apart: the server's
\* revision r of its settings has feature level r and its own realm name
ServerSettings(r) == [zulip_feature_level |-> r, realm_name |-> ToString(r)]
NoSettings == [zulip_feature_level |-> 0, realm_name |-> ""]

\* Durations a caller configures or writes into the shared cell
Durations == 1..MaxDuration
\* The cell before ServerSettingsCache::new made one (the config gave None)
NoCell == 0

NoCache == [exists |-> FALSE, settings |-> NoSettings, last_updated |-> 0]

\* What can become of one GET server_settings
FetchOutcomes == {"ok", "send_error", "bad_status", "undecodable"}

\* ServerSettingsCache::server_settings: send, error_for_status, text, from_str
server_settings(outcome, served) ==
    CASE outcome = "ok" -> Ok(ServerSettings(served))
      [] outcome = "undecodable" -> Err("SerdeJsonError")
      [] OTHER -> Err("ReqwestError")

\* IsStale with the comparison of the config's comment (">= this duration")
IsStale_ge(t, last_updated, itvl) == t - last_updated >= itvl

\* IsStale against the interval the cache was constructed with
IsStale_built(t, last_updated, itvl) == t - last_updated > call.built_itvl

\* The condition of the if in ServerSettingsCache::get
IsStale(t, last_updated, itvl) == t - last_updated > itvl

\* update that drops what it fetched
update_dropped(c, fetched) == c

\* update that stamps the cache with the time, whatever became of the fetch
update_stamped(c, fetched) ==
    IF fetched.ok THEN [c EXCEPT !.settings = fetched.val, !.last_updated = now]
    ELSE [c EXCEPT !.last_updated = now]

\* update that takes the feature level from the fetch and keeps the rest
update_merged(c, fetched) ==
    IF fetched.ok
    THEN [c EXCEPT !.settings.zulip_feature_level =
                       fetched.val.zulip_feature_level]
    ELSE c

\* ServerSettingsCache::update: `self.settings = server_settings(..).await?`
update(c, fetched) ==
    IF fetched.ok THEN [c EXCEPT !.settings = fetched.val] ELSE c

\* new that builds a cache whatever became of its fetch
new_unchecked(fetched, t) ==
    Ok([exists |-> TRUE,
        settings |-> IF fetched.ok THEN fetched.val ELSE NoSettings,
        last_updated |-> t])

\* The value ServerSettingsCache::new returns for the result of its fetch
new(fetched, t) ==
    IF fetched.ok
    THEN Ok([exists |-> TRUE, settings |-> fetched.val, last_updated |-> t])
    ELSE Err(fetched.err)

\* returned that falls back to the settings held when the fetch failed
returned_held(c, fetched) == Ok(c.settings)

\* `Ok(self.settings.clone())` after `self.update().await?`
returned(c, fetched) == IF fetched.ok THEN Ok(c.settings) ELSE Err(fetched.err)

\* The interval cell ServerSettingsCache::new ends with
cell_of(given, cell) ==
    IF given THEN cell ELSE DEFAULT_CACHE_REFRESH_INTERVAL

NoCall ==
    [n |-> 0, op |-> "none", state |-> "idle", elapsed0 |-> 0, itvl0 |-> 0,
     held0 |-> NoSettings, nfetch |-> 0, outcome |-> "none", got |-> NoSettings,
     result |-> Err("none"), built_itvl |-> 0, done_at |-> 0,
     prev |-> [op |-> "none", nfetch |-> 0, state |-> "idle"]]

\* A call begins: what it finds is recorded with it, and with it the interval
\* the cache was constructed with and the call before this one; done_at is
\* the time at which its fetch ends
Begin(op, nfetch) ==
    [n |-> call.n + 1, op |-> op, state |-> "fetching",
     elapsed0 |-> now - cache.last_updated, itvl0 |-> refresh_interval,
     held0 |-> cache.settings, nfetch |-> nfetch, outcome |-> "none",
     got |-> NoSettings, result |-> Err("none"),
     built_itvl |-> call.built_itvl, done_at |-> 0,
     prev |-> [op |-> call.op, nfetch |-> call.nfetch, state |-> call.state]]

\* Idle for a cache that lets a call begin while another awaits its fetch
Idle_shared == TRUE

\* get and get_without_cache take &mut self: a call begins only when no other
\* call on the cache is under way (waiting for the lock on the interval,
\* holding it, or awaiting its fetch)
Idle == call.state \notin {"waiting", "reading", "fetching"}

\* The RwLock of the interval cell with nobody holding it or waiting for it,
\* and the owner's task at rest
NoLock == [readers |-> 0, writer |-> FALSE, queue |-> <<>>]
NoWriter == [state |-> "idle", value |-> 0]

\* Client::new calls ServerSettingsCache::new, which dispatches its fetch
CacheNew ==
    /\ Idle
    /\ ~cache.exists
    /\ call.n < MaxCalls
    /\ call' = Begin("new", 1)
    /\ UNCHANGED <<now, ticks, conf_interval, refresh_interval, cache, srv,
                   last_good>>

\* ServerSettingsCache::get up to the point where it returns or awaits the fetch
Get ==
    /\ Idle
    /\ cache.exists
    /\ call.n < MaxCalls
    /\ IF IsStale(now, cache.last_updated, refresh_interval)
       THEN call' = Begin("get", 1)
       ELSE call' = [Begin("get", 0) EXCEPT !.state = "done",
                                            !.result = Ok(cache.settings)]
    /\ UNCHANGED <<now, ticks, conf_interval, refresh_interval, cache, srv,
                   last_good>>

\* ServerSettingsCache::get_without_cache up to the await of the fetch
GetWithoutCache ==
    /\ Idle
    /\ cache.exists
    /\ call.n < MaxCalls
    /\ call' = Begin("get_without_cache", 1)
    /\ UNCHANGED <<now, ticks, conf_interval, refresh_interval, cache, srv,
                   last_good>>

\* The pending fetch ends and the call that awaited it runs to its return
FetchDone(outcome) ==
    /\ call.state = "fetching"
    /\ LET fetched == server_settings(outcome, srv)
           made == new(fetched, now)
           c2 == IF call.op = "new"
                 THEN IF made.ok THEN made.val ELSE cache
                 ELSE update(cache, fetched)
           res == IF call.op = "new"
                  THEN (IF made.ok THEN Ok(made.val.settings) ELSE Err(made.err))
                  ELSE returned(c2, fetched)
       IN /\ cache' = c2
          /\ refresh_interval' =
                IF call.op = "new" /\ made.ok
                THEN cell_of(conf_interval, refresh_interval)
                ELSE refresh_interval
          /\ last_good' = IF fetched.ok THEN fetched.val ELSE last_good
          /\ call' = [call EXCEPT !.state = "done", !.outcome = outcome,
                                  !.got = IF fetched.ok THEN fetched.val
                                          ELSE NoSettings,
                                  !.result = res,
                                  !.done_at = now,
                                  !.built_itvl =
                                      IF call.op = "new" /\ made.ok
                                      THEN cell_of(conf_interval, refresh_interval)
                                      ELSE call.built_itvl]
    /\ UNCHANGED <<now, ticks, conf_interval, srv>>

\* dropped for a call that had stamped the cache before it awaited the fetch
dropped_stamped(c) == [c EXCEPT !.last_updated = now]

\* The cache after the future of a call was dropped at its await: update()
\* has assigned nothing yet
dropped(c) == c

\* The caller abandons the call that awaits its fetch: it drops the future
Abandon ==
    /\ call.state = "fetching"
    /\ call' = [call EXCEPT !.state = "abandoned"]
    /\ cache' = dropped(cache)
    /\ UNCHANGED <<now, ticks, conf_interval, refresh_interval, srv, last_good>>

\* Time passes
Tick(d) ==
    /\ ticks < MaxTicks
    /\ now' = now + d
    /\ ticks' = ticks + 1
    /\ UNCHANGED <<conf_interval, refresh_interval, cache, srv, call,
                   last_good>>

\* The owner of the configured cell writes a new duration into it
SetInterval(d) ==
    /\ conf_interval
    /\ d # refresh_interval
    /\ refresh_interval' = d
    /\ UNCHANGED <<now, ticks, conf_interval, cache, srv, call,
                   last_good>>

\* The server's settings change: its next revision
ServerChange ==
    /\ srv < MaxLevel
    /\ srv' = srv + 1
    /\ UNCHANGED <<now, ticks, conf_interval, refresh_interval, cache, call,
                   last_good>>

NoOp == [n |-> 0, op |-> "none", args |-> 0, result |-> Err("none")]

-----------------------------------------------------------------------------
(* get() and a writer of the interval, step by step at the lock            *)

\* get(), first part: the left operand of the comparison is evaluated
\* (Instant::now().duration_since(self.last_updated)), then read() is called
\* on the lock, which queues the call behind those that wait already
GetRequestsRead ==
    /\ Idle
    /\ cache.exists
    /\ call.n < MaxCalls
    /\ call' = [Begin("get", 0) EXCEPT !.state = "waiting"]
    /\ lock' = [lock EXCEPT !.queue = Append(@, "get")]
    /\ UNCHANGED <<now, ticks, conf_interval, refresh_interval, cache, srv,
                   last_good, writer>>

\* The lock grants the read guard to get(), the first in its queue, when no
\* writer holds it
GrantRead ==
    /\ lock.queue # <<>>
    /\ Head(lock.queue) = "get"
    /\ ~lock.writer
    /\ lock' = [lock EXCEPT !.queue = Tail(@), !.readers = @ + 1]
    /\ call' = [call EXCEPT !.state = "reading"]
    /\ UNCHANGED <<now, ticks, conf_interval, refresh_interval, cache, srv,
                   last_good, writer>>

\* drop_guard for a guard that lives as long as the block of the if
drop_guard_late(readers) == readers

\* The read guard is a temporary of the condition of the `if`: it is dropped
\* when the condition has been evaluated, before the block is entered
drop_guard(readers) == readers - 1

\* get(), second part: with the guard it compares, the guard is dropped, and
\* it dispatches the fetch of update() or returns the settings it holds
GetDecides ==
    /\ call.state = "reading"
    /\ lock' = [lock EXCEPT !.readers = drop_guard(@)]
    /\ IF IsStale(call.elapsed0, 0, refresh_interval)
       THEN call' = [call EXCEPT !.state = "fetching", !.nfetch = 1,
                                 !.itvl0 = refresh_interval]
       ELSE call' = [call EXCEPT !.state = "done", !.itvl0 = refresh_interval,
                                 !.result = Ok(cache.settings)]
    /\ UNCHANGED <<now, ticks, conf_interval, refresh_interval, cache, srv,
                   last_good, writer>>

\* The owner calls write() on the lock to store the duration d
WriterRequestsWrite(d) ==
    /\ writer.state = "idle"
    /\ writer' = [state |-> "waiting", value |-> d]
    /\ lock' = [lock EXCEPT !.queue = Append(@, "writer")]
    /\ UNCHANGED <<now, ticks, conf_interval, refresh_interval, cache, srv, call,
                   last_good>>

\* The lock grants the write guard to the writer, the first in its queue,
\* when nobody holds the lock
GrantWrite ==
    /\ lock.queue # <<>>
    /\ Head(lock.queue) = "writer"
    /\ ~lock.writer
    /\ lock.readers = 0
    /\ lock' = [lock EXCEPT !.queue = Tail(@), !.writer = TRUE]
    /\ writer' = [writer EXCEPT !.state = "writing"]
    /\ UNCHANGED <<now, ticks, conf_interval, refresh_interval, cache, srv, call,
                   last_good>>

\* The writer stores its duration and drops the write guard
WriterWrites ==
    /\ writer.state = "writing"
    /\ refresh_interval' = writer.value
    /\ lock' = [lock EXCEPT !.writer = FALSE]
    /\ writer' = [writer EXCEPT !.state = "idle"]
    /\ UNCHANGED <<now, ticks, conf_interval, cache, srv, call, last_good>>

\* A cache constructed at time 0 with the interval cell of the configuration
InitLock ==
    /\ now = 0
    /\ ticks = 0
    /\ conf_interval = TRUE
    /\ refresh_interval \in Durations
    /\ cache = [exists |-> TRUE, settings |-> ServerSettings(1),
                last_updated |-> 0]
    /\ srv = 1
    /\ call = [NoCall EXCEPT !.built_itvl = refresh_interval]
    /\ last_good = ServerSettings(1)
    /\ last = NoOp
    /\ serverMsgs = {}
    /\ conf = ClientConfig("api-key")
    /\ lock = NoLock
    /\ writer = NoWriter

NextLock ==
    \/ (GetRequestsRead /\ UNCHANGED opVars)
    \/ (GrantRead /\ UNCHANGED opVars)
    \/ (GetDecides /\ UNCHANGED opVars)
    \/ (\E o \in FetchOutcomes : FetchDone(o) /\ UNCHANGED <<opVars, lockVars>>)
    \/ (\E d \in Durations : WriterRequestsWrite(d) /\ UNCHANGED opVars)
    \/ (GrantWrite /\ UNCHANGED opVars)
    \/ (WriterWrites /\ UNCHANGED opVars)
    \/ (\E d \in {1, DEFAULT_CACHE_REFRESH_INTERVAL} :
           Tick(d) /\ UNCHANGED <<opVars, lockVars>>)

SpecLock == InitLock /\ [][NextLock]_vars

\* The lock and the tasks take their steps: a guard that can be granted is
\* granted, and a task that holds one goes on; nothing is assumed of the
\* network, whose fetch may never end
SpecLockFair ==
    /\ SpecLock
    /\ WF_vars(GrantRead /\ UNCHANGED opVars)
    /\ WF_vars(GetDecides /\ UNCHANGED opVars)
    /\ WF_vars(GrantWrite /\ UNCHANGED opVars)
    /\ WF_vars(WriterWrites /\ UNCHANGED opVars)

InitCache ==
    /\ now = 0
    /\ ticks = 0
    /\ conf_interval \in BOOLEAN
    /\ refresh_interval \in (IF conf_interval THEN Durations ELSE {NoCell})
    /\ cache = NoCache
    /\ srv = 1
    /\ call = NoCall
    /\ last_good = NoSettings
    /\ last = NoOp
    /\ serverMsgs = {}
    /\ conf = ClientConfig("api-key")
    /\ lock = NoLock
    /\ writer = NoWriter

NextCache ==
    \/ (CacheNew /\ UNCHANGED <<opVars, lockVars>>)
    \/ (Get /\ UNCHANGED <<opVars, lockVars>>)
    \/ (GetWithoutCache /\ UNCHANGED <<opVars, lockVars>>)
    \/ (\E o \in FetchOutcomes : FetchDone(o) /\ UNCHANGED <<opVars, lockVars>>)
    \/ (Abandon /\ UNCHANGED <<opVars, lockVars>>)
    \/ (\E d \in {1, DEFAULT_CACHE_REFRESH_INTERVAL} : Tick(d) /\ UNCHANGED <<opVars, lockVars>>)
    \/ (\E d \in Durations : SetInterval(d) /\ UNCHANGED <<opVars, lockVars>>)
    \/ (ServerChange /\ UNCHANGED <<opVars, lockVars>>)

Spec == InitCache /\ [][NextCache]_vars

-----------------------------------------------------------------------------
(* Replies of the server, and the embedded error of error.rs *)

MaxMsgId == 2
MsgIds == 1..MaxMsgId

Codes == {"BAD_REQUEST", "UNAUTHORIZED"}
Msgs == {"x"}

\* HTTP statuses: one that error_for_status lets through, one that it refuses
StatusOk == 200
StatusBad == 400

\* The values of the payload fields that the response structs require
PayloadValue(f) ==
    CASE f = "id" -> 42
      [] f = "detached_uploads" -> <<>>
      [] f = "message" -> [id |-> 42, content |-> "hello"]
      [] f = "rendered" -> "<p>hello</p>"
      [] f = "url" -> "/user_uploads/1/a.txt"
      [] f = "filename" -> "a.txt"
      [] f = "result" -> "success"
      [] f = "linkifiers" -> <<>>

\* A JSON object: code and msg when given, the list of ignored parameters when
\* given, and the payload fields in `pay`, all in the same object
JsonBody(code, msg, ignored, pay) ==
    [f \in (IF code.some THEN {"code"} ELSE {})
           \cup (IF msg.some THEN {"msg"} ELSE {})
           \cup (IF ignored THEN {"ignored_parameters_unsupported"} ELSE {})
           \cup pay |->
        CASE f = "code" -> code.v
          [] f = "msg" -> msg.v
          [] f = "ignored_parameters_unsupported" -> <<"read_by_sender">>
          [] OTHER -> PayloadValue(f)]

Option(S) == {None} \cup {Some(x) : x \in S}

NoBody == [f \in {} |-> 0]
NoReply == [sent |-> FALSE, status |-> 0, json |-> FALSE, body |-> NoBody]

\* What the transport can hand to an operation that expects the payload `pay`:
\* no reply at all, or a status with a body that is a JSON object or is not
Replies(pay) ==
    {NoReply}
    \cup {[sent |-> TRUE, status |-> st, json |-> FALSE, body |-> NoBody] :
            st \in {StatusOk, StatusBad}}
    \cup {[sent |-> TRUE, status |-> st, json |-> TRUE,
           body |-> JsonBody(c, m, ig, p)] :
            st \in {StatusOk, StatusBad}, c \in Option(Codes),
            m \in Option(Msgs), ig \in BOOLEAN, p \in {{}, pay}}

\* #[serde(flatten)] error: Option<ResponseError>: Some when the object has the
\* required fields code and msg, None otherwise
ResponseError(body) ==
    IF {"code", "msg"} \subseteq DOMAIN body
    THEN Some([code |-> body.code, msg |-> body.msg,
               ignored_parameters_unsupported |->
                  IF "ignored_parameters_unsupported" \in DOMAIN body
                  THEN Some(body.ignored_parameters_unsupported) ELSE None])
    ELSE None

\* impl Display for ResponseError
to_string(error) == "err(" \o error.code \o "): " \o error.msg

\* ResponseError::warn_ignored emits tracing::warn!
warn_ignored(error) == error.ignored_parameters_unsupported.some

\* ZulipError
ReqwestError == [type |-> "ReqwestError"]
SerdeJsonError == [type |-> "SerdeJsonError"]
FileError(kind, path) == [type |-> "FileError", kind |-> kind, path |-> path]

\* error_for_status that lets every status through
error_for_status_any(reply) ==
    IF reply.sent THEN Ok(reply) ELSE Err(ReqwestError)

\* `.send().await?.error_for_status()?`
error_for_status(reply) ==
    IF reply.sent /\ reply.status = StatusOk THEN Ok(reply) ELSE Err(ReqwestError)

\* Deserialize of a response struct with the required fields `required` and,
\* when `flat`, the flattened optional error; `failure` is the error of the
\* decoder used (Response::json or serde_json::from_str)
decode(reply, required, flat, failure) ==
    IF reply.json /\ required \subseteq DOMAIN reply.body
    THEN Ok([f \in required |-> reply.body[f]]
            @@ [error |-> IF flat THEN ResponseError(reply.body) ELSE None])
    ELSE Err(failure)

\* auth that keeps to one API key whatever the client holds
auth_fixed_key(request_builder) ==
    [basic_auth |-> [username |-> conf.email, password |-> "api-key"]]
    @@ request_builder

\* Client::auth: basic_auth(self.conf.email, Some(self.conf.api_key.get()))
auth(request_builder) ==
    [basic_auth |-> [username |-> conf.email,
                     password |-> ApiKey_get(conf.api_key)]]
    @@ request_builder

\* Client::api_url of the client, and the host of some other server
ApiHost == "zulip.example"
OtherHost == "other.example"
api_url == [host |-> ApiHost, path |-> "/api/v1/"]

\* Url::join of a string onto a base: a relative path goes below the base's
\* path, a path from the root replaces it, a URL of its own replaces the base
join(base, url) ==
    CASE url.form = "relative" ->
            Ok([host |-> base.host, path |-> base.path \o url.text])
      [] url.form = "rooted" -> Ok([host |-> base.host, path |-> url.text])
      [] url.form = "absolute" -> Ok([host |-> OtherHost, path |-> "/a.txt"])
      [] url.form = "invalid" -> Err([type |-> "UrlParseError"])

\* Client::reqwest_client: the ReqwestClient::new() of Client::new, built
\* without a user agent, so that its requests carry no User-Agent header
reqwest_client == [user_agent |-> None]

\* self.auth(self.reqwest_client().<method>(url)) with its form or query
Request(method, path, params) ==
    auth([method |-> method, path |-> path, params |-> params,
          url |-> join(api_url, [text |-> path, form |-> "relative"]).val,
          user_agent |-> reqwest_client.user_agent])
NoRequest == [method |-> "none"]

\* The caller replaces the key: client.conf.api_key.set(key)
ApiKeySet(key) ==
    /\ key # ApiKey_get(conf.api_key)
    /\ conf' = [conf EXCEPT !.api_key = ApiKey_set(conf.api_key, key)]
    /\ UNCHANGED <<last, serverMsgs>>

\* Called for an operation that sends its request again when the call failed
Called_retried(op, args, nreq, req, reply, result, warned) ==
    [n |-> last.n + 1, op |-> op, args |-> args,
     nreq |-> IF result.ok THEN nreq ELSE 2 * nreq, req |-> req,
     reply |-> reply, result |-> result, warned |-> warned,
     prev |-> [op |-> last.op, args |-> last.args, ok |-> last.result.ok]]

\* One finished call of an endpoint operation: its arguments, the requests it
\* dispatched, the reply, what it returned and whether it logged a warning;
\* `prev` tells which call came before it and whether that one returned Ok
Called(op, args, nreq, req, reply, result, warned) ==
    [n |-> last.n + 1, op |-> op, args |-> args, nreq |-> nreq, req |-> req,
     reply |-> reply, result |-> result, warned |-> warned,
     prev |-> [op |-> last.op, args |-> last.args, ok |-> last.result.ok]]

-----------------------------------------------------------------------------
(* messages/send_message.rs *)

RECURSIVE Join(_, _)
\* The elements of a sequence of strings, `sep` between them
Join(seq, sep) ==
    IF seq = <<>> THEN ""
    ELSE IF Len(seq) = 1 THEN seq[1]
    ELSE seq[1] \o sep \o Join(Tail(seq), sep)

\* serde_json::to_string of a Vec<u64> and of a Vec<String>
json_numbers(vec) == "[" \o Join([i \in 1..Len(vec) |-> ToString(vec[i])], ",") \o "]"
json_strings(vec) ==
    "[" \o Join([i \in 1..Len(vec) |-> "\"" \o vec[i] \o "\""], ",") \o "]"

ChannelMessageTargets == {[kind |-> "Name", s |-> "general"], [kind |-> "Id", number |-> 7]}
DirectMessageTargets ==
    {[kind |-> "Ids", vec |-> <<>>], [kind |-> "Ids", vec |-> <<1, 2>>],
     [kind |-> "Emails", vec |-> <<"a@zulip.com">>]}

Contents == {"", "hello"}
QueueIds == {"", "q1"}
LocalIds == {"0.01"}
Topics == {"greetings"}

\* enum Message
Messages ==
    [variant : {"Direct"}, to : DirectMessageTargets, content : Contents,
     queue_id : QueueIds, local_id : LocalIds]
    \cup [variant : {"Stream"}, content : Contents, topic : Topics,
          queue_id : QueueIds, local_id : LocalIds]
    \cup [variant : {"Channel"}, to : ChannelMessageTargets, content : Contents,
          topic : Topics, queue_id : QueueIds, local_id : LocalIds]

\* Message::typ
typ(msg) ==
    CASE msg.variant = "Direct" -> "direct"
      [] msg.variant = "Stream" -> "stream"
      [] msg.variant = "Channel" -> "channel"

\* Message::to
to(msg) ==
    CASE msg.variant = "Channel" ->
            (IF msg.to.kind = "Name" THEN Some(msg.to.s)
             ELSE Some(ToString(msg.to.number)))
      [] msg.variant = "Direct" ->
            (IF msg.to.kind = "Ids" THEN Some(json_numbers(msg.to.vec))
             ELSE Some(json_strings(msg.to.vec)))
      [] msg.variant = "Stream" -> None

\* topic that gives an empty topic where the variant has none
topic_or_empty(msg) ==
    CASE msg.variant = "Direct" -> Some("")
      [] msg.variant \in {"Stream", "Channel"} -> Some(msg.topic)

\* Message::topic
topic(msg) ==
    CASE msg.variant = "Direct" -> None
      [] msg.variant \in {"Stream", "Channel"} -> Some(msg.topic)

\* HashMap::insert
insert(map, k, v) == (k :> v) @@ map

\* parameters.insert(k, v) under `if let Some(v) = opt`
insert_some(map, k, opt) == IF opt.some THEN insert(map, k, opt.v) ELSE map

\* Message::make_parameters
make_parameters(msg) ==
    LET required == [local_id |-> msg.local_id, queue_id |-> msg.queue_id,
                     content |-> msg.content, type |-> typ(msg)]
    IN insert_some(insert_some(required, "to", to(msg)), "topic", topic(msg))

\* send_message without the check of resp.error
send_message_unchecked(msg, reply) ==
    LET got == error_for_status(reply)
        resp == decode(reply, {"id"}, TRUE, ReqwestError)
    IN IF ~got.ok THEN got
       ELSE IF ~resp.ok THEN resp
       ELSE Ok(resp.val)

\* The part of Client::send_message after the reply arrived
send_message_result(msg, reply) ==
    LET got == error_for_status(reply)
        resp == decode(reply, {"id"}, TRUE, ReqwestError)
    IN IF ~got.ok THEN got
       ELSE IF ~resp.ok THEN resp
       ELSE IF resp.val.error.some
            THEN Err([type |-> "MessageError", variant |-> "SendFailed",
                      content |-> msg.content,
                      error |-> to_string(resp.val.error.v)])
            ELSE Ok(resp.val)

\* Client::send_message
SendMessage(msg, reply) ==
    /\ last' = Called("send_message", msg, 1,
                      Request("POST", "messages", make_parameters(msg)),
                      reply, send_message_result(msg, reply), FALSE)
    /\ UNCHANGED <<serverMsgs, conf>>

-----------------------------------------------------------------------------
(* messages/edit_message.rs *)

\* bool::to_string
bool_to_string(b) == IF b THEN "true" ELSE "false"

\* if let Some(b) = <Option<bool>>: the string b.to_string() inserted
some_bool_to_string(opt) == IF opt.some THEN Some(bool_to_string(opt.v)) ELSE None

\* if let Some(n) = <Option<u64>>: the string n.to_string() inserted
some_number_to_string(opt) == IF opt.some THEN Some(ToString(opt.v)) ELSE None

\* struct EditedMessage
EditedMessages ==
    [message_id : MsgIds,
     topic : Option({"new topic"}),
     send_notification_to_old_thread : Option(BOOLEAN),
     send_notification_to_new_thread : Option({TRUE}),
     content : Option({"edited"}),
     stream_id : Option({9})]

\* edit_parameters that takes stream_id for given
edit_parameters_all(edited_message) ==
    LET p0 == insert_some(NoBody, "topic", edited_message.topic)
        p1 == insert(p0, "propagate_mode", "change_one")
        p2 == insert_some(p1, "send_notification_to_old_thread",
                 some_bool_to_string(edited_message.send_notification_to_old_thread))
        p3 == insert_some(p2, "send_notification_to_new_thread",
                 some_bool_to_string(edited_message.send_notification_to_new_thread))
        p4 == insert_some(p3, "content", edited_message.content)
    IN insert(p4, "stream_id",
              IF edited_message.stream_id.some
              THEN ToString(edited_message.stream_id.v) ELSE "")

\* The parameters Client::edit_message collects
edit_parameters(edited_message) ==
    LET p0 == insert_some(NoBody, "topic", edited_message.topic)
        p1 == insert(p0, "propagate_mode", "change_one")
        p2 == insert_some(p1, "send_notification_to_old_thread",
                 some_bool_to_string(edited_message.send_notification_to_old_thread))
        p3 == insert_some(p2, "send_notification_to_new_thread",
                 some_bool_to_string(edited_message.send_notification_to_new_thread))
        p4 == insert_some(p3, "content", edited_message.content)
    IN insert_some(p4, "stream_id", some_number_to_string(edited_message.stream_id))

\* The part of Client::edit_message after the reply arrived: the body is
\* decoded as EditedMessageResponse, which has no error field
edit_message_result(edited_message, reply) ==
    LET got == error_for_status(reply)
        resp == decode(reply, {"detached_uploads"}, FALSE, SerdeJsonError)
    IN IF ~got.ok THEN got
       ELSE IF ~resp.ok THEN resp
       ELSE Ok([detached_uploads |-> resp.val.detached_uploads])

\* Client::edit_message
EditMessage(edited_message, reply) ==
    /\ last' = Called("edit_message", edited_message, 1,
                      Request("PATCH",
                              "messages/" \o ToString(edited_message.message_id),
                              edit_parameters(edited_message)),
                      reply, edit_message_result(edited_message, reply), FALSE)
    /\ UNCHANGED <<serverMsgs, conf>>

-----------------------------------------------------------------------------
(* messages/delete_message.rs *)

\* The MessageError variant `failed` with error.to_string() as its `error`
with_error(failed, text) == [error |-> text] @@ failed

\* The result of an operation whose response holds nothing but the flattened
\* error; `failed` is the MessageError it builds, but for the error's text
unit_result(reply, failed) ==
    LET got == error_for_status(reply)
        resp == decode(reply, {}, TRUE, ReqwestError)
    IN IF ~got.ok THEN got
       ELSE IF ~resp.ok THEN resp
       ELSE IF resp.val.error.some
            THEN Err(with_error(failed, to_string(resp.val.error.v)))
            ELSE Ok("()")

\* Whether the operation got as far as an embedded error that lists ignored
\* parameters (where it calls warn_ignored)
warned_of(reply, required, failure) ==
    LET got == error_for_status(reply)
        resp == decode(reply, required, TRUE, failure)
    IN /\ got.ok
       /\ resp.ok
       /\ resp.val.error.some
       /\ warn_ignored(resp.val.error.v)

\* delete_message without the check of resp.error
delete_message_unchecked(msg_id, reply) ==
    LET got == error_for_status(reply)
        resp == decode(reply, {}, TRUE, ReqwestError)
    IN IF ~got.ok THEN got
       ELSE IF ~resp.ok THEN resp
       ELSE Ok("()")

\* The part of Client::delete_message after the reply arrived
delete_message_result(msg_id, reply) ==
    LET failed == [type |-> "MessageError", variant |-> "DeletionFailed",
                         id |-> msg_id]
    IN unit_result(reply, failed)

\* The server refuses a request: with a failure status, or with the error
\* object in a body of success status
Refusal(reply) ==
    /\ reply.sent
    /\ \/ reply.status = StatusBad
       \/ reply.json /\ ResponseError(reply.body).some

\* What can come back for DELETE messages/{msg_id}: anything while the server
\* holds the message, no reply or a refusal once it does not
DeleteReplies(msg_id) ==
    IF msg_id \in serverMsgs THEN Replies({})
    ELSE {r \in Replies({}) : ~r.sent \/ Refusal(r)}

\* Client::delete_message, and what the server does with the request
DeleteMessage(msg_id, reply) ==
    /\ reply \in DeleteReplies(msg_id)
    /\ last' = Called("delete_message", msg_id, 1,
                      Request("DELETE", "messages/" \o ToString(msg_id), NoBody),
                      reply, delete_message_result(msg_id, reply),
                      warned_of(reply, {}, ReqwestError))
    /\ IF reply.sent
       THEN serverMsgs' = IF Refusal(reply) THEN serverMsgs
                          ELSE serverMsgs \ {msg_id}
       ELSE serverMsgs' \in {serverMsgs, serverMsgs \ {msg_id}}
    /\ UNCHANGED conf

-----------------------------------------------------------------------------
(* messages/emoji_reaction.rs *)

\* urlencoding::encode of one character: unreserved characters stay, the
\* others become the %XX of their UTF-8 bytes
encode_char(ch) ==
    CASE ch = " " -> "%20"
      [] ch = "+" -> "%2B"
      [] ch = "%" -> "%25"
      [] OTHER -> ch

\* encode that leaves every character as it is
encode_verbatim(name) == Join(name, "")

\* urlencoding::encode
encode(name) == Join([i \in 1..Len(name) |-> encode_char(name[i])], "")

\* enum ReactionType and its Display
ReactionTypes == {"unicode_emoji", "realm_emoji", "zulip_extra_emoji"}

\* struct EmojiSelector; emoji_name is the sequence of its characters
EmojiSelectors ==
    [emoji_name : {<<"h", "e", "a", "r", "t">>, <<"a", " ", "b">>, <<"+", "1">>},
     emoji_code : Option({"1f600"}),
     reaction_type : Option(ReactionTypes)]

\* EmojiSelector::make_parameters
emoji_parameters(selector) ==
    LET p0 == insert(NoBody, "emoji_name", encode(selector.emoji_name))
        p1 == insert_some(p0, "emoji_code", selector.emoji_code)
    IN insert_some(p1, "reaction_type", selector.reaction_type)

\* Client::add_emoji_reaction
AddEmojiReaction(msg_id, selector, reply) ==
    LET failed == [type |-> "MessageError", variant |-> "AddEmojiFailed",
                         msg_id |-> msg_id, emoji_name |-> selector.emoji_name]
    IN /\ last' = Called("add_emoji_reaction",
                         [msg_id |-> msg_id, selector |-> selector], 1,
                         Request("POST",
                                 "messages/" \o ToString(msg_id) \o "/reactions",
                                 emoji_parameters(selector)),
                         reply, unit_result(reply, failed), FALSE)
       /\ UNCHANGED <<serverMsgs, conf>>

\* Client::remove_emoji_reaction
RemoveEmojiReaction(msg_id, selector, reply) ==
    LET failed == [type |-> "MessageError", variant |-> "RemoveEmojiFailed",
                         msg_id |-> msg_id, emoji_name |-> selector.emoji_name]
    IN /\ last' = Called("remove_emoji_reaction",
                         [msg_id |-> msg_id, selector |-> selector], 1,
                         Request("DELETE",
                                 "messages/" \o ToString(msg_id) \o "/reactions",
                                 emoji_parameters(selector)),
                         reply, unit_result(reply, failed),
                         warned_of(reply, {}, ReqwestError))
       /\ UNCHANGED <<serverMsgs, conf>>

-----------------------------------------------------------------------------
(* messages/fetch_single_message.rs, messages/render_message.rs *)

\* The result of an operation whose response struct has the required fields
\* `required` beside the flattened error
payload_result(reply, required, failure, failed) ==
    LET got == error_for_status(reply)
        resp == decode(reply, required, TRUE, failure)
    IN IF ~got.ok THEN got
       ELSE IF ~resp.ok THEN resp
       ELSE IF resp.val.error.some
            THEN Err(with_error(failed, to_string(resp.val.error.v)))
            ELSE Ok(resp.val)

\* Client::fetch_single_message
FetchSingleMessage(msg_id, apply_markdown, reply) ==
    LET failed == [type |-> "MessageError",
                         variant |-> "SingleMessageFetchFailed",
                         msg_id |-> msg_id]
    IN /\ last' = Called("fetch_single_message",
                         [msg_id |-> msg_id, apply_markdown |-> apply_markdown], 1,
                         Request("GET", "messages/" \o ToString(msg_id),
                                 [apply_markdown |-> bool_to_string(apply_markdown)]),
                         reply,
                         payload_result(reply, {"message"}, ReqwestError, failed),
                         warned_of(reply, {"message"}, ReqwestError))
       /\ UNCHANGED <<serverMsgs, conf>>

\* Client::render_message: Ok holds the `rendered` field alone
RenderMessage(content, reply) ==
    LET failed == [type |-> "MessageError", variant |-> "RenderMessageFailed",
                         content |-> content]
        res == payload_result(reply, {"rendered"}, SerdeJsonError, failed)
    IN /\ last' = Called("render_message", content, 1,
                         Request("POST", "messages/render", [content |-> content]),
                         reply,
                         IF res.ok THEN Ok(res.val.rendered) ELSE res, FALSE)
       /\ UNCHANGED <<serverMsgs, conf>>

-----------------------------------------------------------------------------
(* messages/upload_file.rs *)

\* A path as upload_file sees it: whether Path::file_name gives a name, what
\* tokio::fs::try_exists answers, and whether the file can be opened and read
Paths ==
    {[path |-> "..", file_name |-> None, try_exists |-> "true", readable |-> FALSE],
     [path |-> "/tmp/a.txt", file_name |-> Some("a.txt"), try_exists |-> "true",
      readable |-> TRUE],
     [path |-> "/tmp/gone.txt", file_name |-> Some("gone.txt"),
      try_exists |-> "false", readable |-> FALSE],
     [path |-> "/root/a.txt", file_name |-> Some("a.txt"), try_exists |-> "error",
      readable |-> FALSE]}

\* What Client::upload_file decides before it dispatches anything
upload_file_local(path) ==
    IF ~path.file_name.some THEN Err(FileError("FileNameNotFound", path.path))
    ELSE IF path.try_exists = "error" THEN Err(FileError("FileNotFound", path.path))
    ELSE IF ~path.readable THEN Err(FileError("AttachSerializeFailed", path.path))
    ELSE Ok(path.file_name.v)

\* Client::upload_file
UploadFile(path, reply) ==
    LET local == upload_file_local(path)
        failed == [type |-> "MessageError", variant |-> "FileUploadFailed",
                         path |-> path.path]
    IN /\ IF local.ok
          THEN last' = Called("upload_file", path, 1,
                          Request("POST", "user_uploads",
                                  [multipart |-> local.val]),
                          reply,
                          payload_result(reply, {"url", "filename"}, ReqwestError,
                                         failed),
                          warned_of(reply, {"url", "filename"}, ReqwestError))
          ELSE /\ reply = NoReply
               /\ last' = Called("upload_file", path, 0, NoRequest, NoReply,
                                 local, FALSE)
       /\ UNCHANGED <<serverMsgs, conf>>

-----------------------------------------------------------------------------
(* messages/download_file.rs *)

\* The strings a caller passes as `url`: a path relative to the API, a path
\* from the root of the server (as UploadFileResponse::url is), a URL of its
\* own, and one that does not parse
DownloadUrls ==
    {[text |-> "user_uploads/1/a.txt", form |-> "relative"],
     [text |-> "/user_uploads/1/a.txt", form |-> "rooted"],
     [text |-> "https://other.example/a.txt", form |-> "absolute"],
     [text |-> "https://[", form |-> "invalid"]}

\* What the machine does for the call once the reply is there: whether
\* NamedTempFile::new, resp.bytes() and tokio::fs::write succeed
DownloadLocals == [create : BOOLEAN, read : BOOLEAN, write : BOOLEAN]

\* FileError::DownloadFailTempFile
DownloadFailTempFile == [type |-> "FileError", kind |-> "DownloadFailTempFile"]

\* No temporary file was created
NoTemp == [created |-> FALSE, kept |-> FALSE, content |-> NoBody]

\* The bytes of a reply's body
bytes(reply) == [json |-> reply.json, body |-> reply.body]

\* download_temp that creates its file before it looks at the status
download_temp_early(reply, local) ==
    IF ~local.create THEN NoTemp
    ELSE IF ~error_for_status(reply).ok \/ ~local.read \/ ~local.write
         THEN [created |-> TRUE, kept |-> FALSE, content |-> NoBody]
         ELSE [created |-> TRUE, kept |-> TRUE, content |-> bytes(reply)]

\* The temporary file of Client::download_file: created after
\* error_for_status, written with resp.bytes(), removed when the
\* NamedTempFile is dropped on an early return
download_temp(reply, local) ==
    IF ~error_for_status(reply).ok \/ ~local.create THEN NoTemp
    ELSE IF ~local.read \/ ~local.write
         THEN [created |-> TRUE, kept |-> FALSE, content |-> NoBody]
         ELSE [created |-> TRUE, kept |-> TRUE, content |-> bytes(reply)]

\* The part of Client::download_file after the reply arrived
download_file_result(reply, local) ==
    LET got == error_for_status(reply)
    IN IF ~got.ok THEN got
       ELSE IF ~local.create THEN Err(DownloadFailTempFile)
       ELSE IF ~local.read THEN Err(ReqwestError)
       ELSE IF ~local.write THEN Err(DownloadFailTempFile)
       ELSE Ok(download_temp(reply, local))

\* Client::download_file
DownloadFile(url, reply, local) ==
    LET joined == join(api_url, url)
    IN /\ IF joined.ok
          THEN last' = [temp |-> download_temp(reply, local), local |-> local]
                       @@ Called("download_file", url, 1,
                                 [url |-> joined.val]
                                 @@ Request("GET", url.text, NoBody),
                                 reply, download_file_result(reply, local), FALSE)
          ELSE /\ reply = NoReply
               /\ last' = [temp |-> NoTemp, local |-> local]
                           @@ Called("download_file", url, 0, NoRequest, NoReply,
                                     Err(joined.err), FALSE)
       /\ UNCHANGED <<serverMsgs, conf>>

-----------------------------------------------------------------------------
(* Client::linkifiers, organizations.rs *)

\* The part of Client::linkifiers after the reply arrived: the body is decoded
\* as LinkifiersResponse, whose fields result, msg and linkifiers are required
linkifiers_result(reply) ==
    LET got == error_for_status(reply)
        resp == decode(reply, {"result", "msg", "linkifiers"}, FALSE,
                       SerdeJsonError)
    IN IF ~got.ok THEN got
       ELSE IF ~resp.ok THEN resp
       ELSE Ok([result |-> resp.val.result, msg |-> resp.val.msg,
                linkifiers |-> resp.val.linkifiers])

\* Client::linkifiers
Linkifiers(reply) ==
    /\ last' = Called("linkifiers", 0, 1,
                      Request("GET", "realm/linkifiers", NoBody),
                      reply, linkifiers_result(reply), FALSE)
    /\ UNCHANGED <<serverMsgs, conf>>

-----------------------------------------------------------------------------
(* One call of an endpoint operation on any input, from any state of the    *)
(* server: Client's operations take &self and leave the client as it was.  *)

InitCall ==
    /\ now = 0
    /\ ticks = 0
    /\ conf_interval = FALSE
    /\ refresh_interval = NoCell
    /\ cache = NoCache
    /\ srv = 1
    /\ call = NoCall
    /\ last_good = NoSettings
    /\ last = NoOp
    /\ serverMsgs \in SUBSET MsgIds
    /\ conf = ClientConfig("api-key")
    /\ lock = NoLock
    /\ writer = NoWriter

\* No endpoint operation has been called yet
NoCallYet == last.n = 0

NextCall ==
    \/ /\ NoCallYet
       /\ \E msg \in Messages, reply \in Replies({"id"}) : SendMessage(msg, reply)
       /\ UNCHANGED <<cacheVars, lockVars>>
    \/ /\ NoCallYet
       /\ \E em \in EditedMessages, reply \in Replies({"detached_uploads"}) :
             EditMessage(em, reply)
       /\ UNCHANGED <<cacheVars, lockVars>>
    \/ /\ NoCallYet
       /\ \E id \in MsgIds, reply \in Replies({}) : DeleteMessage(id, reply)
       /\ UNCHANGED <<cacheVars, lockVars>>
    \/ /\ NoCallYet
       /\ \E id \in MsgIds, sel \in EmojiSelectors, reply \in Replies({}) :
             AddEmojiReaction(id, sel, reply)
       /\ UNCHANGED <<cacheVars, lockVars>>
    \/ /\ NoCallYet
       /\ \E id \in MsgIds, sel \in EmojiSelectors, reply \in Replies({}) :
             RemoveEmojiReaction(id, sel, reply)
       /\ UNCHANGED <<cacheVars, lockVars>>
    \/ /\ NoCallYet
       /\ \E id \in MsgIds, md \in BOOLEAN, reply \in Replies({"message"}) :
             FetchSingleMessage(id, md, reply)
       /\ UNCHANGED <<cacheVars, lockVars>>
    \/ /\ NoCallYet
       /\ \E content \in Contents, reply \in Replies({"rendered"}) :
             RenderMessage(content, reply)
       /\ UNCHANGED <<cacheVars, lockVars>>
    \/ /\ NoCallYet
       /\ \E path \in Paths, reply \in Replies({"url", "filename"}) :
             UploadFile(path, reply)
       /\ UNCHANGED <<cacheVars, lockVars>>
    \/ /\ NoCallYet
       /\ \E url \in DownloadUrls, reply \in Replies({}),
             local \in DownloadLocals : DownloadFile(url, reply, local)
       /\ UNCHANGED <<cacheVars, lockVars>>
    \/ /\ NoCallYet
       /\ \E reply \in Replies({"result", "linkifiers"}) : Linkifiers(reply)
       /\ UNCHANGED <<cacheVars, lockVars>>
    \/ /\ \E key \in ApiKeys : ApiKeySet(key)
       /\ UNCHANGED <<cacheVars, lockVars>>

SpecCall == InitCall /\ [][NextCall]_vars

-----------------------------------------------------------------------------
(* delete_message called again and again, against a server that holds the  *)
(* messages until it has deleted them                                      *)

InitDelete ==
    /\ now = 0
    /\ ticks = 0
    /\ conf_interval = FALSE
    /\ refresh_interval = NoCell
    /\ cache = NoCache
    /\ srv = 1
    /\ call = NoCall
    /\ last_good = NoSettings
    /\ last = NoOp
    /\ serverMsgs = MsgIds
    /\ conf = ClientConfig("api-key")
    /\ lock = NoLock
    /\ writer = NoWriter

NextDelete ==
    /\ last.n < MaxOps
    /\ \E id \in MsgIds, reply \in Replies({}) : DeleteMessage(id, reply)
    /\ UNCHANGED <<cacheVars, lockVars>>

SpecDelete == InitDelete /\ [][NextDelete]_vars

-----------------------------------------------------------------------------
(* Claims about the endpoint operations, checked under SpecCall *)

\* The reply has a success status and its JSON body holds both code and msg
EmbeddedError(reply) ==
    /\ reply.sent
    /\ reply.status = StatusOk
    /\ reply.json
    /\ {"code", "msg"} \subseteq DOMAIN reply.body

\* The text of code and msg that the operation errors carry
ErrorText(body) == "err(" \o body.code \o "): " \o body.msg

\* The result is the MessageError of the given variant
IsMessageError(result, variant) ==
    /\ ~result.ok
    /\ result.err.type = "MessageError"
    /\ result.err.variant = variant

EndpointOps ==
    {"send_message", "edit_message", "delete_message", "add_emoji_reaction",
     "remove_emoji_reaction", "upload_file", "fetch_single_message",
     "render_message"}

\* C1: no endpoint operation returns Ok for a reply of success status whose
\* body holds the embedded error; it returns an error
C1_EmbeddedErrorNeverOk ==
    (last.op \in EndpointOps /\ last.nreq = 1 /\ EmbeddedError(last.reply))
        => ~last.result.ok

\* C2: send_message, given a reply of success status whose body holds id, code
\* and msg, returns SendFailed with that code and msg and the content of the
\* message sent, never the MessageResponse
C2_SendFailedOnEmbeddedError ==
    (last.op = "send_message" /\ EmbeddedError(last.reply)
        /\ "id" \in DOMAIN last.reply.body)
    => last.result = Err([type |-> "MessageError", variant |-> "SendFailed",
                          content |-> last.args.content,
                          error |-> ErrorText(last.reply.body)])

\* C2's case: the reply holds the id of a message and the error
C2_Witness ==
    /\ last.op = "send_message"
    /\ EmbeddedError(last.reply)
    /\ "id" \in DOMAIN last.reply.body
    /\ last.reply.body.id = 42
    /\ last.reply.body.code = "BAD_REQUEST"
    /\ IsMessageError(last.result, "SendFailed")

\* The keys Message::make_parameters is to emit for a message
KeysOf(msg) ==
    {"type", "content", "queue_id", "local_id"}
    \cup (IF msg.variant \in {"Direct", "Channel"} THEN {"to"} ELSE {})
    \cup (IF msg.variant \in {"Stream", "Channel"} THEN {"topic"} ELSE {})

\* C8: the parameters of a message hold type, content, queue_id and local_id
\* always, `to` exactly for Direct and Channel, `topic` exactly for Stream and
\* Channel, and no other key; the fixed keys hold the message's own values
C8_ParametersOfVariant ==
    last.op = "send_message" =>
        LET msg == last.args
            params == last.req.params
        IN /\ DOMAIN params = KeysOf(msg)
           /\ params.type = typ(msg)
           /\ params.content = msg.content
           /\ params.queue_id = msg.queue_id
           /\ params.local_id = msg.local_id
           /\ msg.variant \in {"Stream", "Channel"} => params.topic = msg.topic

\* C8's case: a Direct message, sent with `to` and without `topic`
C8_Witness ==
    /\ last.op = "send_message"
    /\ last.args.variant = "Direct"
    /\ last.args.to.kind = "Ids"
    /\ last.req.params.to = "[1,2]"
    /\ "topic" \notin DOMAIN last.req.params

\* The keys edit_message is to send for an EditedMessage
EditKeysOf(em) ==
    {"propagate_mode"}
    \cup {f \in {"topic", "send_notification_to_old_thread",
                 "send_notification_to_new_thread", "content", "stream_id"} :
            em[f].some}

\* C9: edit_message sends propagate_mode = change_one always and each of
\* topic, send_notification_to_old_thread, send_notification_to_new_thread,
\* content, stream_id exactly when the field is Some, as a PATCH to
\* messages/{message_id}
C9_EditParameters ==
    last.op = "edit_message" =>
        /\ DOMAIN last.req.params = EditKeysOf(last.args)
        /\ last.req.params.propagate_mode = "change_one"
        /\ last.req.method = "PATCH"
        /\ last.req.path = "messages/" \o ToString(last.args.message_id)
        /\ last.nreq = 1

\* C9's case: an edit of the content alone
C9_Witness ==
    /\ last.op = "edit_message"
    /\ last.args.content.some
    /\ ~last.args.topic.some
    /\ ~last.args.stream_id.some
    /\ {"propagate_mode", "content"} \subseteq DOMAIN last.req.params
    /\ "stream_id" \notin DOMAIN last.req.params

\* C10: edit_message, given a reply of success status that holds the embedded
\* error, fails with an operation error of its own that carries the id of the
\* message and the reply's code and msg
C10_EditFailsWithId ==
    (last.op = "edit_message" /\ EmbeddedError(last.reply)) =>
        /\ ~last.result.ok
        /\ last.result.err.type = "MessageError"
        /\ last.result.err.msg_id = last.args.message_id
        /\ last.result.err.error = ErrorText(last.reply.body)

-----------------------------------------------------------------------------
(* Claims about repeated deletion, checked under SpecDelete *)

\* This call of delete_message follows one for the same id that returned Ok
DeletedAgain ==
    /\ last.op = "delete_message"
    /\ last.prev.op = "delete_message"
    /\ last.prev.args = last.args
    /\ last.prev.ok

DeletionFailed(msg_id, body) ==
    Err([type |-> "MessageError", variant |-> "DeletionFailed", id |-> msg_id,
         error |-> ErrorText(body)])

Accepted(reply) ==
    /\ reply.sent
    /\ reply.status = StatusOk
    /\ reply.json
    /\ ~({"code", "msg"} \subseteq DOMAIN reply.body)

-----------------------------------------------------------------------------
(* Claims about the cache, checked under Spec *)

\* Fresh, as the claims define it: the time since last_updated does not exceed
\* the refresh interval (both as the call found them)
FreshAtCall == call.elapsed0 <= call.itvl0

C4_StaleGetRefreshes ==
    [][(call.op = "get" /\ call.state = "fetching" /\ call'.state = "done"
          /\ call'.result.ok)
        => /\ call'.nfetch = 1
           /\ cache'.last_updated = now'
           /\ ~IsStale(now', cache'.last_updated, refresh_interval')]_vars

\* C6: ServerSettingsCache::new dispatches exactly one fetch and fails if and
\* only if that fetch fails; a cache that exists holds settings that a
\* successful fetch returned
C6_NewNeedsOneGoodFetch ==
    /\ (call.op = "new" => call.nfetch = 1)
    /\ (call.op = "new" /\ call.state = "done") =>
           /\ call.result.ok <=> call.outcome = "ok"
           /\ call.result.ok <=> cache.exists
    /\ cache.exists =>
           /\ last_good # NoSettings
           /\ \E r \in 1..srv : cache.settings = ServerSettings(r)

\* C6's case: a construction failed, a later one succeeded
C6_Witness ==
    /\ call.op = "new"
    /\ call.state = "done"
    /\ call.n = 2
    /\ call.result.ok
    /\ cache.exists

\* C7: get_without_cache() dispatches a fetch on every call, Fresh or Stale,
\* and on success returns the settings that fetch brought
C7_ForcedRefresh ==
    call.op = "get_without_cache" =>
        /\ call.nfetch = 1
        /\ (call.state = "done" /\ call.result.ok) =>
              /\ call.result.val = call.got
              /\ call.got = last_good

\* C7's case: a forced refresh of a Fresh cache that brought new settings
C7_Witness ==
    /\ call.op = "get_without_cache"
    /\ call.state = "done"
    /\ FreshAtCall
    /\ call.result.ok
    /\ call.result.val # call.held0

-----------------------------------------------------------------------------
(* Claims about the emoji reactions, checked under SpecCall *)

\* The percent-encodings of the emoji names, as RFC 3986 gives them
PercentEncoded(name) ==
    CASE name = <<"h", "e", "a", "r", "t">> -> "heart"
      [] name = <<"a", " ", "b">> -> "a%20b"
      [] name = <<"+", "1">> -> "%2B1"

\* C11: add_emoji_reaction and remove_emoji_reaction send emoji_name as the
\* percent-encoding of the selector's name (a space is %20), emoji_code
\* exactly when it is Some, reaction_type exactly when it is Some, to
\* messages/{id}/reactions, the one with POST and the other with DELETE
C11_EmojiParameters ==
    last.op \in {"add_emoji_reaction", "remove_emoji_reaction"} =>
        LET selector == last.args.selector
            params == last.req.params
        IN /\ DOMAIN params =
                 {"emoji_name"}
                 \cup (IF selector.emoji_code.some THEN {"emoji_code"} ELSE {})
                 \cup (IF selector.reaction_type.some THEN {"reaction_type"}
                       ELSE {})
           /\ params.emoji_name = PercentEncoded(selector.emoji_name)
           /\ selector.emoji_code.some =>
                 params.emoji_code = selector.emoji_code.v
           /\ selector.reaction_type.some =>
                 params.reaction_type = selector.reaction_type.v
           /\ last.req.path =
                 "messages/" \o ToString(last.args.msg_id) \o "/reactions"
           /\ last.req.method =
                 (IF last.op = "add_emoji_reaction" THEN "POST" ELSE "DELETE")

\* C11's case: a reaction removed by a name with a space in it, and by nothing
\* but the name
C11_Witness ==
    /\ last.op = "remove_emoji_reaction"
    /\ last.args.selector.emoji_name = <<"a", " ", "b">>
    /\ ~last.args.selector.emoji_code.some
    /\ ~last.args.selector.reaction_type.some
    /\ last.req.params = [emoji_name |-> "a%20b"]
    /\ last.req.method = "DELETE"

-----------------------------------------------------------------------------
(* Claims about upload_file, checked under SpecCall *)

\* C12: upload_file, given a path that has a final segment and at which no
\* file exists, returns FileError::FileNotFound with that path and dispatches
\* no request
C12_AbsentFileNotFound ==
    (last.op = "upload_file" /\ last.args.file_name.some
        /\ last.args.try_exists = "false")
    => /\ last.result = Err(FileError("FileNotFound", last.args.path))
       /\ last.nreq = 0

-----------------------------------------------------------------------------
(* Claims about download_file, checked under SpecCall *)

\* The transport returned a reply of success status
SuccessStatus(reply) == reply.sent /\ reply.status = StatusOk

\* C13: download_file creates its temporary file only after a reply of success
\* status, writes the whole body to it and returns its handle; it returns
\* DownloadFailTempFile when creating the file or writing to it fails; when
\* the request fails or has a failure status, no temporary file is created
C13_DownloadTempFile ==
    last.op = "download_file" =>
        /\ last.temp.created => (last.nreq = 1 /\ SuccessStatus(last.reply))
        /\ (last.nreq = 0 \/ ~SuccessStatus(last.reply)) =>
              (last.temp = NoTemp /\ ~last.result.ok)
        /\ last.result.ok =>
              /\ last.result.val = last.temp
              /\ last.temp.kept
              /\ last.temp.content =
                    [json |-> last.reply.json, body |-> last.reply.body]
        /\ (last.nreq = 1 /\ SuccessStatus(last.reply)) =>
              /\ ~last.local.create => last.result = Err(DownloadFailTempFile)
              /\ (last.local.create /\ last.local.read /\ ~last.local.write)
                    => last.result = Err(DownloadFailTempFile)
              /\ (last.local.create /\ last.local.read /\ last.local.write)
                    => last.result.ok

\* C13's case: a download whose body went to the temporary file
C13_Witness ==
    /\ last.op = "download_file"
    /\ last.args.form = "rooted"
    /\ last.reply.json
    /\ "code" \in DOMAIN last.reply.body
    /\ last.result.ok
    /\ last.result.val.content.body = last.reply.body

-----------------------------------------------------------------------------
(* Claims about what every request carries, checked under SpecCall *)

\* The operations that dispatch their request through Client::auth
AuthenticatedOps ==
    {"send_message", "edit_message", "delete_message", "add_emoji_reaction",
     "remove_emoji_reaction", "upload_file", "download_file",
     "fetch_single_message", "render_message", "linkifiers"}

\* This step is a call of an operation that dispatched a request
Dispatches == last'.n = last.n + 1 /\ last'.nreq >= 1

\* C14: every request that one of the ten operations dispatches carries HTTP
\* Basic authentication with the configured email as username and, as
\* password, the API key the client holds when the call is made
C14_BasicAuthOnEveryRequest ==
    [][Dispatches =>
          /\ last'.op \in AuthenticatedOps
          /\ last'.req.basic_auth =
                [username |-> Email, password |-> conf.api_key.key]]_vars

\* C14's case: a download dispatched after the key was replaced
C14_Witness ==
    /\ last.op = "download_file"
    /\ last.nreq = 1
    /\ conf.api_key.key = "rotated-key"
    /\ last.req.basic_auth.password = "rotated-key"

\* C15: every request that an endpoint operation dispatches carries the
\* client identity header, whose value is the string UserAgent::new rendered
\* from the caller's product name and version and the library's
C15_UserAgentOnEveryRequest ==
    (last.n > 0 /\ last.nreq >= 1) =>
        last.req.user_agent = Some(conf.user_agent.s)

\* What an operation does before it dispatches failed: upload_file found no
\* file name, could not ask whether the file exists or could not read it;
\* download_file could not parse its url
LocalFailure ==
    \/ /\ last.op = "upload_file"
       /\ \/ ~last.args.file_name.some
          \/ last.args.try_exists = "error"
          \/ ~last.args.readable
    \/ /\ last.op = "download_file"
       /\ last.args.form = "invalid"

\* C16: one call of an endpoint operation dispatches one request when what it
\* does locally before the dispatch succeeds and none when that fails; no
\* reply, a failure status, an undecodable body or an embedded error makes it
\* send another
C16_AtMostOneRequest ==
    last.n > 0 =>
        /\ last.nreq \in {0, 1}
        /\ last.nreq = 0 <=> LocalFailure
        /\ last.nreq = 0 =>
              (~last.result.ok /\ last.req = NoRequest /\ ~last.reply.sent)

\* C16's case: an upload answered with an embedded error, returned as it is
C16_Witness ==
    /\ last.op = "upload_file"
    /\ last.nreq = 1
    /\ EmbeddedError(last.reply)
    /\ IsMessageError(last.result, "FileUploadFailed")

-----------------------------------------------------------------------------
(* Claims about the warning for ignored parameters, checked under SpecCall *)

\* The operation decoded a reply whose body lists ignored parameters
DecodedIgnored ==
    /\ last.op \in EndpointOps
    /\ last.nreq = 1
    /\ SuccessStatus(last.reply)
    /\ last.reply.json
    /\ "ignored_parameters_unsupported" \in DOMAIN last.reply.body
    /\ (last.result.ok \/ last.result.err.type = "MessageError")

\* C19: whenever the reply an endpoint operation decoded lists ignored
\* parameters, the operation emits a warning, whether it returns success or
\* an error
C19_WarnsOnIgnored == DecodedIgnored => last.warned

-----------------------------------------------------------------------------
(* Claims about the refresh interval and the calls on the cache, checked    *)
(* under Spec                                                              *)

\* This step is the beginning of a get()
GetBegins == call'.n = call.n + 1 /\ call'.op = "get"

\* C17: the staleness decision of every get() compares the time since the
\* last update with the duration that is in the shared interval cell when
\* get() is called, whatever the duration was when the cache was constructed
C17_CurrentInterval ==
    [][GetBegins =>
          (call'.nfetch = 1 <=> now - cache.last_updated > refresh_interval)]_vars

\* C17's case: the cache was constructed with an interval of 2 s, the owner
\* wrote 1 s into the cell, and a get() 2 s after the last update fetched
C17_Witness ==
    /\ call.op = "get"
    /\ call.built_itvl = 2
    /\ call.itvl0 = 1
    /\ call.elapsed0 = 2
    /\ call.nfetch = 1

\* C18: calls of get() and get_without_cache() on one cache do not
\* interleave: a call begins only when no call awaits its fetch, and the
\* cache is written only by the end of the one call under way, so that at
\* most one refresh is in flight
C18_CallsDoNotInterleave ==
    [][/\ call'.n # call.n => call.state # "fetching"
       /\ cache' # cache =>
             (call.state = "fetching" /\ call'.state = "done"
                /\ call'.n = call.n)]_vars

\* C18's case: a get_without_cache() awaits its fetch after a get() that
\* fetched has returned
C18_Witness ==
    /\ call.op = "get_without_cache"
    /\ call.state = "fetching"
    /\ call.prev.op = "get"
    /\ call.prev.nfetch = 1

\* C20: get() refreshes the cache whenever the time since the last update is
\* greater than or equal to the refresh interval; when it is equal to the
\* interval, get() fetches
C20_RefreshAtInterval ==
    (call.op = "get" /\ call.elapsed0 >= call.itvl0) => call.nfetch = 1

-----------------------------------------------------------------------------
(* Claims about what a call leaves of the cache, checked under Spec *)

\* This step is the end of the fetch that a call awaited
FetchEnds == call.state = "fetching" /\ call'.state = "done"

\* This step is a get() that finds the cache Fresh
FreshGet ==
    /\ GetBegins
    /\ now - cache.last_updated <= refresh_interval

\* C21: last_updated changes only with the end of a fetch that succeeded; a
\* get() that finds the cache Fresh leaves settings, last_updated and the
\* refresh interval as they were
C21_LastUpdatedFrame ==
    [][/\ cache'.last_updated # cache.last_updated =>
             (FetchEnds /\ call'.outcome = "ok" /\ call'.result.ok)
       /\ FreshGet =>
             (cache' = cache /\ refresh_interval' = refresh_interval
                /\ call'.state = "done")]_vars

\* C21's case: a cache constructed after time had passed, read while Fresh
C21_Witness ==
    /\ call.op = "get"
    /\ call.state = "done"
    /\ call.nfetch = 0
    /\ call.elapsed0 > 0
    /\ cache.last_updated > 0

\* The error of a fetch that did not succeed
FetchError(outcome) ==
    IF outcome = "undecodable" THEN "SerdeJsonError" ELSE "ReqwestError"

\* C22: when the fetch of a get() or get_without_cache() fails, the call
\* returns the error of that fetch, not the settings held, it has dispatched
\* that one fetch only, and settings and last_updated are what they were
C22_FailedRefresh ==
    [][(FetchEnds /\ call.op \in {"get", "get_without_cache"}
          /\ call'.outcome # "ok")
       => /\ call'.result = Err(FetchError(call'.outcome))
          /\ call'.nfetch = 1
          /\ call'.n = call.n
          /\ cache' = cache]_vars

\* C22's case: the refresh of a stale get() was answered with a failure status
C22_Witness ==
    /\ call.op = "get"
    /\ call.state = "done"
    /\ call.outcome = "bad_status"
    /\ ~call.result.ok
    /\ cache.settings = call.held0

\* C23: the settings a cache holds are, in all fields, the result of the
\* latest fetch that succeeded, the fetch of the construction or of a refresh
C23_WholeReplacement ==
    cache.exists =>
        /\ cache.settings = last_good
        /\ \E r \in 1..srv : cache.settings = ServerSettings(r)

\* C23's case: a refresh replaced the settings of the construction by the
\* server's next ones
C23_Witness ==
    /\ call.op = "get"
    /\ call.state = "done"
    /\ call.held0 = ServerSettings(1)
    /\ cache.settings = ServerSettings(2)

-----------------------------------------------------------------------------
(* Claims about the decoding of replies, checked under SpecCall *)

\* The fields of the success payload of an operation, and the variant of
\* MessageError that is the operation's own
SuccessPayload(op) ==
    CASE op = "send_message" -> {"id"}
      [] op = "fetch_single_message" -> {"message"}
      [] op = "render_message" -> {"rendered"}
      [] op = "upload_file" -> {"url", "filename"}

OwnError(op) ==
    CASE op = "send_message" -> "SendFailed"
      [] op = "fetch_single_message" -> "SingleMessageFetchFailed"
      [] op = "render_message" -> "RenderMessageFailed"
      [] op = "upload_file" -> "FileUploadFailed"

\* C24: send_message, fetch_single_message, render_message and upload_file
\* map a reply of success status that holds the embedded error and none of
\* the fields of their success payload to their own MessageError with the
\* reply's code and msg, not to a serialization error
C24_ErrorOnlyReply ==
    (/\ last.op \in {"send_message", "fetch_single_message", "render_message",
                     "upload_file"}
     /\ last.nreq = 1
     /\ EmbeddedError(last.reply)
     /\ SuccessPayload(last.op) \cap DOMAIN last.reply.body = {})
    => /\ IsMessageError(last.result, OwnError(last.op))
       /\ last.result.err.error = ErrorText(last.reply.body)

-----------------------------------------------------------------------------
(* Claims about abandoned calls, checked under Spec *)

\* This step is the caller's abandoning of a get() or get_without_cache()
Abandons ==
    /\ call.op \in {"get", "get_without_cache"}
    /\ call.state = "fetching"
    /\ call'.state = "abandoned"

\* C25: a get() or get_without_cache() abandoned while its fetch is pending
\* leaves settings and last_updated as they were before the call, and a
\* get() after it decides and returns as one on the cache as it was
C25_AbandonedCall ==
    [][/\ Abandons => (cache' = cache /\ cache.settings = call.held0)
       /\ (GetBegins /\ call.state = "abandoned") =>
             /\ cache.settings = call.held0
             /\ call'.nfetch = 1 <=>
                   now - cache.last_updated > refresh_interval
             /\ call'.nfetch = 0 => call'.result = Ok(call.held0)]_vars

\* C25's case: a get() that returned the settings held, after a forced
\* refresh that would have brought the server's next settings was abandoned
C25_Witness ==
    /\ call.op = "get"
    /\ call.state = "done"
    /\ call.nfetch = 0
    /\ call.prev.op = "get_without_cache"
    /\ call.prev.state = "abandoned"
    /\ srv = 2
    /\ call.result = Ok(ServerSettings(1))

-----------------------------------------------------------------------------
(* Claims about the content of a message sent, checked under SpecCall *)

\* C26: every request that send_message dispatches carries a content
\* parameter that is not empty; a Message with the empty string as content is
\* not sent
C26_ContentNotEmpty ==
    (last.op = "send_message" /\ last.nreq >= 1) =>
        /\ "content" \in DOMAIN last.req.params
        /\ last.req.params.content # ""

-----------------------------------------------------------------------------
(* Claims about the cache after a forced refresh, checked under Spec *)

\* This step is a get() that follows a get_without_cache() that succeeded,
\* with no more than the refresh interval elapsed since that refresh ended
GetAfterForcedRefresh ==
    /\ GetBegins
    /\ call.op = "get_without_cache"
    /\ call.state = "done"
    /\ call.result.ok
    /\ refresh_interval = call.itvl0
    /\ now - call.done_at <= refresh_interval

\* C27: a get_without_cache() that succeeded makes the cache Fresh: a get()
\* after it, with no more than the interval elapsed since the forced
\* refresh, dispatches no fetch
C27_FreshAfterForcedRefresh ==
    [][GetAfterForcedRefresh => call'.nfetch = 0]_vars

-----------------------------------------------------------------------------
(* Claims about the status of a reply, checked under SpecCall *)

\* C28: every operation checks the status before it decodes the body: a
\* reply of failure status yields ZulipError::ReqwestError whatever its body
\* holds, and a MessageError comes from a reply of success status only
C28_StatusBeforeBody ==
    (last.n > 0 /\ last.nreq = 1) =>
        /\ (last.reply.sent /\ last.reply.status # StatusOk) =>
              last.result = Err(ReqwestError)
        /\ (~last.result.ok /\ last.result.err.type = "MessageError") =>
              SuccessStatus(last.reply)

\* C28's case: a deletion refused with a failure status and the error object
\* in the body
C28_Witness ==
    /\ last.op = "delete_message"
    /\ last.reply.sent
    /\ last.reply.status = StatusBad
    /\ last.reply.json
    /\ {"code", "msg"} \subseteq DOMAIN last.reply.body
    /\ last.result = Err(ReqwestError)

-----------------------------------------------------------------------------
(* Claims about where the credentials go, checked under SpecCall *)

\* C29: every request that carries the Basic-auth credentials of the account
\* is addressed to the host of the configured server, whatever string
\* download_file was given
C29_CredentialsToServerOnly ==
    (last.n > 0 /\ last.nreq >= 1 /\ "basic_auth" \in DOMAIN last.req) =>
        last.req.url.host = ApiHost

-----------------------------------------------------------------------------
(* Claims about the lock on the refresh interval, checked under SpecLockFair *)

\* The lock can be granted to the writer now
WriteGrantable ==
    /\ lock.readers = 0
    /\ ~lock.writer
    /\ lock.queue # <<>>
    /\ Head(lock.queue) = "writer"

\* C30: get() holds the read lock on the interval only while it compares and
\* has released it when the fetch is dispatched, so that a writer that waits
\* while a fetch is pending can be granted the lock at once and gets to
\* write though the fetch never ends; a get() that waits for the lock is
\* granted it and decides (no deadlock between get() and the writer)
C30_LockNotHeldAcrossFetch ==
    /\ [](call.state = "fetching" => lock.readers = 0)
    /\ []((writer.state = "waiting" /\ call.state = "fetching")
            => WriteGrantable)
    /\ (writer.state = "waiting" ~> writer.state = "writing")
    /\ (call.state = "waiting" ~> call.state \in {"fetching", "done"})

\* C30's case: the writer has stored a new duration while the fetch of a
\* get() that read the old one is still pending
C30_Witness ==
    /\ call.op = "get"
    /\ call.state = "fetching"
    /\ writer.state = "idle"
    /\ writer.value = 2
    /\ call.itvl0 = 1
    /\ refresh_interval = 2
    /\ lock = NoLock

====
